---- MODULE Spec2Model ----
(***************************************************************************)
(* billbee-node-api: the request pipeline of the client factory.           *)
(*                                                                         *)
(* A client is made by the factory (credentials, version, stringifyBigInt) *)
(* and offers the verb methods get/post/put/patch/del.  Every call is a    *)
(* small promise chain: precondition checks, a first transport request,    *)
(* the decoding of its response, and on an HTTP 429 a delay followed by    *)
(* one more transport request.  A call of client.request, which the        *)
(* declarations name and the client object lacks, throws.                  *)
(*                                                                         *)
(* RewriteSpec applies the digit-quoting rewrite to a text, apart from the *)
(* pipeline.  VariantSpec runs one call on the three clients of part_001.  *)
(* ConcSpec runs several calls at once on one client, and FairConcSpec     *)
(* adds that every response arrives and every delay ends.                  *)
(*                                                                         *)
(* Texts (response bodies) are sequences of one-character strings.         *)
(***************************************************************************)
EXTENDS Integers, Sequences, FiniteSets, TLC

\* client, ctor and calls are the pipeline; rewrite is one application of the
\* digit-quoting rewrite to a text, on its own
VARIABLES client, ctor, calls, rewrite

vars == <<client, ctor, calls, rewrite>>

-----------------------------------------------------------------------------
(* Bounds of the model                                                     *)

\* number of calls made on the client
MaxCalls == 1
\* the digit runs of the texts are 16..MaxRun digits long
MaxRun == 18
\* the digit runs of the rewritten texts start at the digits 1..MaxShift + 1
MaxShift == 2
\* the calls in flight at the same time on one client
MaxInFlight == 2

-----------------------------------------------------------------------------
(* JavaScript values, in one record shape                                  *)
(*   t        "undefined" | "null" | "boolean" | "number" | "string" |      *)
(*            "object"                                                      *)
(*   n        1 for true, 0 for false                                       *)
(*   chars    the characters of a string, the decimal digits of a number    *)
(*   members  the own properties of an object, in order: [key, val]         *)

JVal(t, n, chars, members) ==
  [t |-> t, n |-> n, chars |-> chars, members |-> members]

JUndef == JVal("undefined", 0, <<>>, <<>>)
JNull == JVal("null", 0, <<>>, <<>>)
JBool(b) == JVal("boolean", IF b THEN 1 ELSE 0, <<>>, <<>>)
JNum(digits) == JVal("number", 0, digits, <<>>)
JStr(chars) == JVal("string", 0, chars, <<>>)
JObject(members) == JVal("object", 0, <<>>, members)

\* a destructuring or parameter default: it replaces undefined only
Default(v, d) == IF v = JUndef THEN d ELSE v

\* !v
Falsy(v) ==
  \/ v.t \in {"undefined", "null"}
  \/ v.t = "string" /\ v.chars = <<>>
  \/ v.t = "boolean" /\ v.n = 0
  \/ v.t = "number" /\ v.chars = <<"0">>

-----------------------------------------------------------------------------
(* Decimal digit runs                                                      *)

DigitChars == <<"0", "1", "2", "3", "4", "5", "6", "7", "8", "9">>
Digits == {DigitChars[k] : k \in 1..10}
IsDigit(c) == c \in Digits
DigitVal(c) == (CHOOSE k \in 1..10 : DigitChars[k] = c) - 1

\* the least number of a set of numbers that is not empty
Least(S) == CHOOSE j \in S : \A k \in S : j <= k

\* the length of the digit run of s that starts at position i: the run ends
\* before the first position that holds no digit, or with s
RunLen(s, i) ==
  IF i > Len(s) THEN 0
  ELSE Least({j \in i..(Len(s) + 1) : j > Len(s) \/ ~IsDigit(s[j])}) - i

\* the value of the digit run d modulo m, most significant digit first; acc
\* is the value of the digits before i modulo m, a number from 0 on
RECURSIVE ModFrom(_, _, _, _)
ModFrom(d, i, acc, m) ==
  IF acc >= 0 /\ i > Len(d) THEN acc
  ELSE ModFrom(d, i + 1, (acc * 10 + DigitVal(d[i])) % m, m)

\* a <= b for digit runs without leading zeros: for runs of one length, from
\* the digit i on, the first digit that differs decides
LexLeq(a, b, i) ==
  \/ \A j \in i..Len(a) : a[j] = b[j]
  \/ DigitVal(a[Least({j \in i..Len(a) : a[j] # b[j]})])
       < DigitVal(b[Least({j \in i..Len(a) : a[j] # b[j]})])

DigitsLeq(a, b) == Len(a) < Len(b) \/ (Len(a) = Len(b) /\ LexLeq(a, b, 1))

RECURSIVE IncDigits(_)
IncDigits(d) ==
  IF d = <<>> THEN <<"1">>
  ELSE IF d[Len(d)] = "9" THEN IncDigits(SubSeq(d, 1, Len(d) - 1)) \o <<"0">>
  ELSE SubSeq(d, 1, Len(d) - 1) \o <<DigitChars[DigitVal(d[Len(d)]) + 2]>>

RECURSIVE DecDigits(_)
DecDigits(d) ==
  IF d[Len(d)] = "0" THEN DecDigits(SubSeq(d, 1, Len(d) - 1)) \o <<"9">>
  ELSE SubSeq(d, 1, Len(d) - 1) \o <<DigitChars[DigitVal(d[Len(d)])]>>

StripZeros(d) ==
  IF \A i \in 1..Len(d) : d[i] = "0" THEN <<"0">>
  ELSE SubSeq(d, CHOOSE i \in 1..Len(d) :
                   d[i] # "0" /\ \A j \in 1..(i - 1) : d[j] = "0", Len(d))

\* acc is the value of the digits before i, a number from 0 on
RECURSIVE ToInt(_, _, _)
ToInt(d, i, acc) ==
  IF acc >= 0 /\ i > Len(d) THEN acc
  ELSE ToInt(d, i + 1, acc * 10 + DigitVal(d[i]))

RECURSIVE Padded(_, _)
Padded(n, width) ==
  IF width = 0 THEN <<>>
  ELSE Padded(n \div 10, width - 1) \o <<DigitChars[(n % 10) + 1]>>

\* d + delta for a run d of more than nine digits and a small delta; the last
\* nine digits are added as an integer
AddLow(high, sum) ==
  IF sum < 0 THEN StripZeros(DecDigits(high) \o Padded(sum + 1000000000, 9))
  ELSE IF sum >= 1000000000 THEN IncDigits(high) \o Padded(sum - 1000000000, 9)
  ELSE high \o Padded(sum, 9)

AddSmall(d, delta) ==
  AddLow(SubSeq(d, 1, Len(d) - 9),
         ToInt(SubSeq(d, Len(d) - 8, Len(d)), 1, 0) + delta)

-----------------------------------------------------------------------------
(* IEEE-754 doubles: the number a JSON integer literal decodes to          *)

\* 2^53 .. 2^64 as digit runs
Pow2From53 == <<
  <<"9","0","0","7","1","9","9","2","5","4","7","4","0","9","9","2">>,
  <<"1","8","0","1","4","3","9","8","5","0","9","4","8","1","9","8","4">>,
  <<"3","6","0","2","8","7","9","7","0","1","8","9","6","3","9","6","8">>,
  <<"7","2","0","5","7","5","9","4","0","3","7","9","2","7","9","3","6">>,
  <<"1","4","4","1","1","5","1","8","8","0","7","5","8","5","5","8","7","2">>,
  <<"2","8","8","2","3","0","3","7","6","1","5","1","7","1","1","7","4","4">>,
  <<"5","7","6","4","6","0","7","5","2","3","0","3","4","2","3","4","8","8">>,
  <<"1","1","5","2","9","2","1","5","0","4","6","0","6","8","4","6","9","7","6">>,
  <<"2","3","0","5","8","4","3","0","0","9","2","1","3","6","9","3","9","5","2">>,
  <<"4","6","1","1","6","8","6","0","1","8","4","2","7","3","8","7","9","0","4">>,
  <<"9","2","2","3","3","7","2","0","3","6","8","5","4","7","7","5","8","0","8">>,
  <<"1","8","4","4","6","7","4","4","0","7","3","7","0","9","5","5","1","6","1","6">>
>>

RECURSIVE TwoTo(_)
TwoTo(k) == IF k = 0 THEN 1 ELSE 2 * TwoTo(k - 1)

\* doubles between 2^(52+k) and 2^(53+k) are 2^k apart
UlpExp(d) == Cardinality({j \in 1..Len(Pow2From53) : DigitsLeq(Pow2From53[j], d)})

\* d rounded to a multiple of ulp, r = d mod ulp and r2 = d mod 2 ulp: to the
\* nearest one, a tie to the even multiple
RoundTo(d, ulp, r, r2) ==
  IF r = 0 THEN d
  ELSE AddSmall(d, (IF 2 * r > ulp \/ (2 * r = ulp /\ r2 # r) THEN ulp ELSE 0) - r)

RoundUlp(d, ulp) == RoundTo(d, ulp, ModFrom(d, 1, 0, ulp), ModFrom(d, 1, 0, 2 * ulp))

\* the integer nearest to d among the doubles, ties to the even mantissa
\* (d a digit run without leading zeros, below 2^64)
ToDouble(d) == RoundUlp(d, TwoTo(UlpExp(d)))

-----------------------------------------------------------------------------
(* The digit-quoting rewrite                                               *)

\* the 17 of /:(\d{17})/g
BigIntDigits == 17

\* /:(\d{17})/ matches at position i of s
MatchesAt(s, i) ==
  /\ i + BigIntDigits <= Len(s)
  /\ s[i] = ":"
  /\ \A j \in (i + 1)..(i + BigIntDigits) : IsDigit(s[j])

\* the position of the first match of /:(\d{17})/ in s at or after i,
\* Len(s) + 1 if there is none
NextMatch(s, i) == Least({k \in i..(Len(s) + 1) : k > Len(s) \/ MatchesAt(s, k)})

\* a replacement that drops the colon of the match
RECURSIVE ReplaceFrom_DropColon(_, _)
ReplaceFrom_DropColon(s, i) ==
  IF NextMatch(s, i) > Len(s) THEN SubSeq(s, i, Len(s))
  ELSE SubSeq(s, i, NextMatch(s, i) - 1)
         \o <<"\"">>
         \o SubSeq(s, NextMatch(s, i) + 1, NextMatch(s, i) + BigIntDigits)
         \o <<"\"">>
         \o ReplaceFrom_DropColon(s, NextMatch(s, i) + BigIntDigits + 1)

\* str.replace(/:(\d{17})/g, ':"$1"'): the matches are taken from left to
\* right, each search resuming after the previous match; the text between
\* two matches is copied
RECURSIVE ReplaceFrom(_, _)
ReplaceFrom(s, i) ==
  IF NextMatch(s, i) > Len(s) THEN SubSeq(s, i, Len(s))
  ELSE SubSeq(s, i, NextMatch(s, i) - 1)
         \o <<":", "\"">>
         \o SubSeq(s, NextMatch(s, i) + 1, NextMatch(s, i) + BigIntDigits)
         \o <<"\"">>
         \o ReplaceFrom(s, NextMatch(s, i) + BigIntDigits + 1)

bigIntStringify(str) == ReplaceFrom(str, 1)

-----------------------------------------------------------------------------
(* JSON.parse, for the texts of this model: an object whose members are    *)
(* strings (without escapes) and unsigned integer literals, a string or an *)
(* integer literal, without white space.  Every other text is a            *)
(* SyntaxError.                                                            *)

NoParse == [ok |-> FALSE, val |-> JUndef, next |-> 0]
Parsed(v, next) == [ok |-> TRUE, val |-> v, next |-> next]

\* the position of the first quote character of s at or after i, 0 if none
RECURSIVE QuoteFrom(_, _)
QuoteFrom(s, i) ==
  IF i > Len(s) THEN 0 ELSE IF s[i] = "\"" THEN i ELSE QuoteFrom(s, i + 1)

\* the string that opens at i and closes at j
StringUpTo(s, i, j) ==
  IF j = 0 THEN NoParse ELSE Parsed(JStr(SubSeq(s, i + 1, j - 1)), j + 1)

ParseString(s, i) ==
  IF i > Len(s) \/ s[i] # "\"" THEN NoParse
  ELSE StringUpTo(s, i, QuoteFrom(s, i + 1))

\* an integer literal of n digits: "0" or a run that does not start with 0
NumberOf(s, i, n) ==
  IF n = 0 THEN NoParse
  ELSE IF s[i] = "0"
    THEN IF n = 1 THEN Parsed(JNum(<<"0">>), i + 1) ELSE NoParse
    ELSE Parsed(JNum(ToDouble(SubSeq(s, i, i + n - 1))), i + n)

ParseNumber(s, i) == NumberOf(s, i, RunLen(s, i))

ParseScalar(s, i) ==
  IF i > Len(s) THEN NoParse
  ELSE IF s[i] = "\"" THEN ParseString(s, i)
  ELSE ParseNumber(s, i)

\* the members of an object from position i on, up to and with its "}"
RECURSIVE ParseMembers(_, _, _)

\* after a member: the object ends, or a comma and the next member
AfterMember(s, next, m) ==
  IF next > Len(s) THEN NoParse
  ELSE IF s[next] = "}" THEN Parsed(JObject(m), next + 1)
  ELSE IF s[next] = "," THEN ParseMembers(s, next + 1, m)
  ELSE NoParse

AfterValue(s, acc, key, v) ==
  IF ~v.ok THEN NoParse
  ELSE AfterMember(s, v.next, Append(acc, [key |-> key.val.chars, val |-> v.val]))

AfterKey(s, acc, key) ==
  IF ~key.ok \/ key.next > Len(s) \/ s[key.next] # ":" THEN NoParse
  ELSE AfterValue(s, acc, key, ParseScalar(s, key.next + 1))

ParseMembers(s, i, acc) == AfterKey(s, acc, ParseString(s, i))

ParseValue(s) ==
  IF s = <<>> THEN NoParse
  ELSE IF s[1] = "{"
    THEN IF Len(s) >= 2 /\ s[2] = "}" THEN Parsed(JObject(<<>>), 3)
         ELSE ParseMembers(s, 2, <<>>)
    ELSE ParseScalar(s, 1)

\* JSON.parse(text): the whole text has to be one value
Whole(s, r) == IF r.ok /\ r.next = Len(s) + 1 THEN r ELSE NoParse

JSONParse(s) == Whole(s, ParseValue(s))

-----------------------------------------------------------------------------
(* JSON.stringify, for the values JSON.parse yields                        *)

Zeros(n) == [i \in 1..n |-> "0"]

\* the digit run t against half of 10^Len(t): -1 below, 0 equal, 1 above
HalfCompare(t) ==
  IF t = <<>> THEN -1
  ELSE IF DigitVal(t[1]) < 5 THEN -1
  ELSE IF DigitVal(t[1]) > 5 THEN 1
  ELSE IF \A i \in 2..Len(t) : t[i] = "0" THEN 0 ELSE 1

\* Number::toString of a double d that is an integer below 10^21: the fewest
\* significant digits that still denote d, followed by zeros
\* the first k digits of d, and that number plus one, followed by zeros
Low(d, k) == SubSeq(d, 1, k) \o Zeros(Len(d) - k)
High(d, k) == IncDigits(SubSeq(d, 1, k)) \o Zeros(Len(d) - k)

\* some number of k significant digits denotes the double d
FitsAt(d, k) == ToDouble(Low(d, k)) = d \/ ToDouble(High(d, k)) = d

\* of the numbers of k significant digits that denote d, the one nearest to d
Nearest(d, k, lowFits, highFits, half) ==
  IF ~highFits THEN Low(d, k)
  ELSE IF ~lowFits THEN High(d, k)
  ELSE IF half < 0 THEN Low(d, k)
  ELSE IF half > 0 THEN High(d, k)
  ELSE IF DigitVal(d[k]) % 2 = 0 THEN Low(d, k) ELSE High(d, k)

Shortest(d, k) ==
  Nearest(d, k, ToDouble(Low(d, k)) = d, ToDouble(High(d, k)) = d,
          HalfCompare(SubSeq(d, k + 1, Len(d))))

\* the least number of significant digits, from k on, that denotes d
FirstFit(d, k) ==
  IF k >= Len(d) THEN k
  ELSE Least({j \in k..Len(d) : j = Len(d) \/ FitsAt(d, j)})

NumberToString(d) == IF d = <<"0">> THEN d ELSE Shortest(d, FirstFit(d, 1))

StringifyScalar(v) ==
  CASE v.t = "number" -> NumberToString(v.chars)
    [] v.t = "string" -> <<"\"">> \o v.chars \o <<"\"">>
    [] OTHER -> <<"n", "u", "l", "l">>

RECURSIVE StringifyMembers(_, _)
StringifyMembers(m, i) ==
  IF i > Len(m) THEN <<>>
  ELSE (IF i > 1 THEN <<",">> ELSE <<>>)
         \o <<"\"">> \o m[i].key \o <<"\"", ":">> \o StringifyScalar(m[i].val)
         \o StringifyMembers(m, i + 1)

JSONStringify(v) ==
  IF v.t = "object" THEN <<"{">> \o StringifyMembers(v.members, 1) \o <<"}">>
  ELSE StringifyScalar(v)

-----------------------------------------------------------------------------
(* The masking rewrite of the axios client                                 *)

TikTokTag == <<"T","i","k","T","o","k","O","r","d","e","r","I","D",":">>
PlaceholderHead ==
  <<"_","_","T","I","K","T","O","K","_","P","L","A","C","E","H","O","L","D","E","R","_">>
PlaceholderTail == <<"_", "_">>

RECURSIVE IntToDigits(_)
IntToDigits(n) ==
  IF n < 10 THEN <<DigitChars[n + 1]>>
  ELSE IntToDigits(n \div 10) \o <<DigitChars[(n % 10) + 1]>>

\* `__TIKTOK_PLACEHOLDER_${placeholderCount++}__`
Placeholder(count) == PlaceholderHead \o IntToDigits(count) \o PlaceholderTail

HasAt(s, i, p) == i + Len(p) - 1 <= Len(s) /\ SubSeq(s, i, i + Len(p) - 1) = p

\* the length of the match of /(TikTokOrderID:\d+)/ at position i, 0 if none
TikTokLen(s, i) ==
  IF HasAt(s, i, TikTokTag) /\ RunLen(s, i + Len(TikTokTag)) >= 1
    THEN Len(TikTokTag) + RunLen(s, i + Len(TikTokTag))
    ELSE 0

\* the position of the first match of tikTokPattern in s at or after i,
\* Len(s) + 1 if there is none
NextTikTok(s, i) ==
  Least({k \in i..(Len(s) + 1) : k > Len(s) \/ TikTokLen(s, k) > 0})

\* str.replace(tikTokPattern, callback): the masked text, the k-th match
\* replaced by Placeholder(k - 1), the text between two matches copied
RECURSIVE MaskFrom(_, _, _)
MaskFrom(s, i, count) ==
  IF NextTikTok(s, i) > Len(s) THEN SubSeq(s, i, Len(s))
  ELSE SubSeq(s, i, NextTikTok(s, i) - 1)
         \o Placeholder(count)
         \o MaskFrom(s, NextTikTok(s, i) + TikTokLen(s, NextTikTok(s, i)), count + 1)

\* the values of the placeholders map, in insertion order
RECURSIVE MatchesFrom(_, _)
MatchesFrom(s, i) ==
  IF NextTikTok(s, i) > Len(s) THEN <<>>
  ELSE <<SubSeq(s, NextTikTok(s, i),
                NextTikTok(s, i) + TikTokLen(s, NextTikTok(s, i)) - 1)>>
         \o MatchesFrom(s, NextTikTok(s, i) + TikTokLen(s, NextTikTok(s, i)))

\* the first position of p in s at or after i, 0 if none
FindFrom(s, i, p) ==
  IF \A j \in i..(Len(s) - Len(p) + 1) : ~HasAt(s, j, p) THEN 0
  ELSE Least({j \in i..(Len(s) - Len(p) + 1) : HasAt(s, j, p)})

\* s.replace(p, v) with a string pattern: the first occurrence only
ReplaceFirst(s, p, v) ==
  LET i == FindFrom(s, 1, p)
  IN  IF i = 0 THEN s
      ELSE SubSeq(s, 1, i - 1) \o v \o SubSeq(s, i + Len(p), Len(s))

\* for (const [placeholder, value] of Object.entries(placeholders))
RECURSIVE RestoreFrom(_, _, _)
RestoreFrom(s, values, k) ==
  IF k > Len(values) THEN s
  ELSE RestoreFrom(ReplaceFirst(s, Placeholder(k - 1), values[k]), values, k + 1)

bigIntStringifyMasked(str) ==
  RestoreFrom(ReplaceFrom(MaskFrom(str, 1, 0), 1), MatchesFrom(str, 1), 1)

-----------------------------------------------------------------------------
(* The response bodies of the model                                        *)

\* the digit run 1234567890123... of n digits
Cyc(n) == [i \in 1..n |-> DigitChars[(i % 10) + 1]]
RunLens == (BigIntDigits - 1)..MaxRun

\* {"a":<d>} and {"a":<d>,"b":<e>}
OneField(d) == <<"{", "\"", "a", "\"", ":">> \o d \o <<"}">>
TwoFields(d, e) ==
  <<"{", "\"", "a", "\"", ":">> \o d \o <<",", "\"", "b", "\"", ":">> \o e \o <<"}">>

\* {"n":"TikTokOrderID:<d>","a":<e>}: the vendor order id inside a string
VendorString(d) == TikTokTag \o d
VendorBody(d, e) ==
  <<"{", "\"", "n", "\"", ":", "\"">> \o VendorString(d)
    \o <<"\"", ",", "\"", "a", "\"", ":">> \o e \o <<"}">>

\* response bodies: one numeric field, two numeric fields, a vendor order id
\* and a numeric field, a body that is no JSON, an empty body
Bodies ==
  {OneField(Cyc(n)) : n \in RunLens}
    \cup {TwoFields(Cyc(BigIntDigits), Cyc(n)) : n \in RunLens}
    \cup {VendorBody(Cyc(n), Cyc(BigIntDigits)) :
            n \in BigIntDigits..(BigIntDigits + 1)}
    \cup {<<"<">>, <<>>}

-----------------------------------------------------------------------------
(* Errors                                                                  *)
(*   kind     "config" | "precondition" | "http" | "network" | "syntax"     *)
(*   status   the HTTP status of an "http" error, 0 otherwise               *)
(*   msg      the message of a config or precondition error                 *)
(*   attempt  the transport attempt an http or network error comes from     *)

Err(kind, status, msg, attempt) ==
  [kind |-> kind, status |-> status, msg |-> msg, attempt |-> attempt]

NoError == Err("none", 0, "", 0)
MissingUrl == Err("precondition", 0, "Missing url", 0)
MissingBody == Err("precondition", 0, "Missing body", 0)
SyntaxError == Err("syntax", 0, "", 0)

-----------------------------------------------------------------------------
(* The clients                                                             *)
(*   "requestPromise"  src/index.js                                         *)
(*   "axiosMasked"     src/unnamed/part_002, lines 1-177                    *)
(* and the three of src/unnamed/part_001                                    *)
(*   "requestPromiseEager"  lines 1-120, request-promise, 5000 ms           *)
(*   "axiosTrim"            lines 122-305, axios, its own isEmpty           *)
(*   "axiosAsync"           lines 307-416, axios, async functions           *)

Variants == {"requestPromise", "axiosMasked"}

PartOneVariants == {"requestPromiseEager", "axiosTrim", "axiosAsync"}

Verbs == {"GET", "POST", "PUT", "PATCH", "DELETE"}

\* the methods of the object the factory returns
HasVerb(variant, verb) ==
  IF variant \in {"requestPromise", "requestPromiseEager", "axiosAsync"}
    THEN verb \in {"GET", "POST", "PUT", "DELETE"}
    ELSE verb \in Verbs

NoClient ==
  [made |-> FALSE, variant |-> "", apiKey |-> JUndef, user |-> JUndef,
   pass |-> JUndef, version |-> JUndef, stringifyBigInt |-> FALSE]

DefaultVersion == JStr(<<"v", "1">>)

\* new Error('Missing apiKey'), and the longer message of part_001:166-177
MissingMessage(variant, name) ==
  IF variant = "axiosTrim"
    THEN CASE name = "apiKey" -> "[billbee-node-api] Missing Credentials: apiKey"
           [] name = "user" -> "[billbee-node-api] Missing Credentials: user"
           [] name = "pass" -> "[billbee-node-api] Missing Credentials: pass"
    ELSE CASE name = "apiKey" -> "Missing apiKey"
           [] name = "user" -> "Missing user"
           [] name = "pass" -> "Missing pass"

\* the factory without its check of pass
Factory_NoPassCheck(variant, cfg, opts) ==
  LET apiKey == Default(cfg.apiKey, JStr(<<>>))
      user == Default(cfg.user, JStr(<<>>))
      Throw(msg) ==
        [threw |-> TRUE, error |-> Err("config", 0, msg, 0), client |-> NoClient]
  IN  IF Falsy(apiKey) THEN Throw("Missing apiKey")
      ELSE IF Falsy(user) THEN Throw("Missing user")
      ELSE [threw |-> FALSE, error |-> NoError,
            client |-> [made |-> TRUE, variant |-> variant, apiKey |-> apiKey,
                        user |-> user, pass |-> Default(cfg.pass, JStr(<<>>)),
                        version |-> Default(cfg.version, DefaultVersion),
                        stringifyBigInt |->
                          ~Falsy(Default(opts.stringifyBigInt, JBool(TRUE)))]]

\* module.exports = ({apiKey = '', user = '', pass = '', version = 'v1'} = {},
\*                   {stringifyBigInt = true} = {}) => ...
\* cfg and opts hold undefined for what the caller leaves out
Factory(variant, cfg, opts) ==
  LET apiKey == Default(cfg.apiKey, JStr(<<>>))
      user == Default(cfg.user, JStr(<<>>))
      pass == Default(cfg.pass, JStr(<<>>))
      version == Default(cfg.version, DefaultVersion)
      stringifyBigInt == Default(opts.stringifyBigInt, JBool(TRUE))
      Throw(msg) ==
        [threw |-> TRUE, error |-> Err("config", 0, msg, 0), client |-> NoClient]
  IN  IF Falsy(apiKey) THEN Throw(MissingMessage(variant, "apiKey"))
      ELSE IF Falsy(user) THEN Throw(MissingMessage(variant, "user"))
      ELSE IF Falsy(pass) THEN Throw(MissingMessage(variant, "pass"))
      ELSE [threw |-> FALSE, error |-> NoError,
            client |-> [made |-> TRUE, variant |-> variant, apiKey |-> apiKey,
                        user |-> user, pass |-> pass, version |-> version,
                        stringifyBigInt |-> ~Falsy(stringifyBigInt)]]

-----------------------------------------------------------------------------
(* Requests                                                                *)

\* a check for null and undefined in place of _.isEmpty
IsEmptyLodash_NullishOnly(v) == v.t \in {"undefined", "null"}

\* _.isEmpty(value) of lodash: null and undefined, strings and arrays by
\* their length, objects by their own keys, every other value is empty
IsEmptyLodash(v) ==
  CASE v.t \in {"undefined", "null"} -> TRUE
    [] v.t = "string" -> v.chars = <<>>
    [] v.t = "object" -> v.members = <<>>
    [] OTHER -> TRUE

\* part_001:128-134: null and undefined, a string that trims to nothing, an
\* object without keys; every other value is not empty
IsEmptyTrim(v) ==
  CASE v.t \in {"undefined", "null"} -> TRUE
    [] v.t = "string" -> \A k \in 1..Len(v.chars) : v.chars[k] \in {" ", "\t", "\n"}
    [] v.t = "object" -> v.members = <<>>
    [] OTHER -> FALSE

isEmpty(variant, v) ==
  IF variant = "axiosTrim" THEN IsEmptyTrim(v) ELSE IsEmptyLodash(v)

EmptyObject == JObject(<<>>)

\* the argument of _request; json is "true" where the verb passes json: true
Args(method, url, query, body, json) ==
  [method |-> method, url |-> url, query |-> query, body |-> body, json |-> json]

\* get passing its parameters as the body
RpFirstArgs_GetBody(verb, url, arg) ==
  CASE verb = "GET" -> Args("GET", url, JUndef, Default(arg, EmptyObject), "unset")
    [] verb = "POST" -> Args("POST", url, JUndef, arg, "true")
    [] verb = "PUT" -> Args("PUT", url, JUndef, Default(arg, EmptyObject), "true")
    [] verb = "DELETE" -> Args("DELETE", url, JUndef, JUndef, "unset")

\* src/index.js: the first _request of get, post, put and del
RpFirstArgs(verb, url, arg) ==
  CASE verb = "GET" -> Args("GET", url, Default(arg, EmptyObject), JUndef, "unset")
    [] verb = "POST" -> Args("POST", url, JUndef, arg, "true")
    [] verb = "PUT" -> Args("PUT", url, JUndef, Default(arg, EmptyObject), "true")
    [] verb = "DELETE" -> Args("DELETE", url, JUndef, JUndef, "unset")

\* src/index.js: the _request of the function handed to delayIfLimitReached
RpRetryArgs(verb, url, arg) ==
  CASE verb = "GET" -> Args("GET", url, Default(arg, EmptyObject), JUndef, "unset")
    [] verb = "POST" -> Args("POST", url, JUndef, arg, "true")
    [] verb = "PUT" -> Args("POST", url, JUndef, Default(arg, EmptyObject), "true")
    [] verb = "DELETE" -> Args("DELETE", url, JUndef, JUndef, "unset")

\* part_002: the first _request of get, post, put, patch and del
AxFirstArgs(verb, url, arg) ==
  CASE verb = "GET" -> Args("GET", url, Default(arg, EmptyObject), JUndef, "unset")
    [] verb = "POST" -> Args("POST", url, JUndef, arg, "unset")
    [] verb = "PUT" -> Args("PUT", url, JUndef, Default(arg, EmptyObject), "unset")
    [] verb = "PATCH" -> Args("PATCH", url, JUndef, Default(arg, EmptyObject), "unset")
    [] verb = "DELETE" -> Args("DELETE", url, JUndef, JUndef, "unset")

\* part_002: the _request of the function handed to delayIfLimitReached
AxRetryArgs(verb, url, arg) ==
  CASE verb = "GET" -> Args("GET", url, Default(arg, EmptyObject), JUndef, "unset")
    [] verb = "POST" -> Args("POST", url, JUndef, arg, "unset")
    [] verb = "PUT" -> Args("POST", url, JUndef, Default(arg, EmptyObject), "unset")
    [] verb = "PATCH" -> Args("PATCH", url, JUndef, Default(arg, EmptyObject), "unset")
    [] verb = "DELETE" -> Args("DELETE", url, JUndef, JUndef, "unset")

\* part_001:363-414: the first _request of get, post, put and del, and the
\* same _request in the function handed to delayIfLimitReached
AsyncArgs(verb, url, arg) ==
  CASE verb = "GET" -> Args("GET", url, Default(arg, EmptyObject), JUndef, "unset")
    [] verb = "POST" -> Args("POST", url, JUndef, arg, "true")
    [] verb = "PUT" -> Args("PUT", url, JUndef, Default(arg, EmptyObject), "true")
    [] verb = "DELETE" -> Args("DELETE", url, JUndef, JUndef, "unset")

FirstArgs(variant, verb, url, arg) ==
  IF variant \in {"requestPromise", "requestPromiseEager"} THEN RpFirstArgs(verb, url, arg)
  ELSE IF variant = "axiosAsync" THEN AsyncArgs(verb, url, arg)
  ELSE AxFirstArgs(verb, url, arg)

\* in the client of part_001:1-120 it is the _request written as the
\* argument of delayIfLimitReached
RetryArgs(variant, verb, url, arg) ==
  IF variant \in {"requestPromise", "requestPromiseEager"} THEN RpRetryArgs(verb, url, arg)
  ELSE IF variant = "axiosAsync" THEN AsyncArgs(verb, url, arg)
  ELSE AxRetryArgs(verb, url, arg)

\* no verb checks its body; every verb with a body checks it
RequiresBody_Never(verb) == FALSE
RequiresBody_EveryWrite(verb) == verb \in {"POST", "PUT", "PATCH"}

\* post alone rejects an empty body
RequiresBody(verb) == verb = "POST"

\* get and del pass the response through maybeParse
ParsesResponse(verb) == verb \in {"GET", "DELETE"}

ContentType == "application/json; charset=utf-8"

\* _request with the base address of v1 whatever the version is
Request_DefaultVersion(cl, args) ==
  [method |-> args.method, url |-> args.url, query |-> args.query,
   body |-> args.body,
   decode |-> IF cl.variant \in {"requestPromise", "requestPromiseEager"}
                THEN (args.json = "true" \/ ~cl.stringifyBigInt)
                ELSE TRUE,
   version |-> DefaultVersion, contentType |-> ContentType,
   apiKey |-> cl.apiKey, user |-> cl.user, pass |-> cl.pass]

\* _request(args): the request the transport is given, the defaults of the
\* client merged with args.  decode: the transport decodes the response body
\* as JSON (json: true of request-promise, the default of axios)
Request(cl, args) ==
  [method |-> args.method, url |-> args.url, query |-> args.query,
   body |-> args.body,
   decode |-> IF cl.variant \in {"requestPromise", "requestPromiseEager"}
                THEN (args.json = "true" \/ ~cl.stringifyBigInt)
                ELSE TRUE,
   version |-> cl.version, contentType |-> ContentType,
   apiKey |-> cl.apiKey, user |-> cl.user, pass |-> cl.pass]

\* what the promise of _request resolves with (res.data with axios): the
\* decoded body, or the text where it is not decoded or does not parse
DecodedOr(decode, r, text) == IF decode /\ r.ok THEN r.val ELSE JStr(text)

\* DecodedOr over the response bodies of the model, computed once
DecodeTable ==
  {[decode |-> d, text |-> b, val |-> DecodedOr(d, JSONParse(b), b)] :
     d \in BOOLEAN, b \in Bodies}

TransportResult(req, text) ==
  (CHOOSE e \in DecodeTable : e.decode = req.decode /\ e.text = text).val

-----------------------------------------------------------------------------
(* Decoding a response                                                     *)

Returned(v) == [threw |-> FALSE, error |-> NoError, val |-> v]
Thrown(e) == [threw |-> TRUE, error |-> e, val |-> JUndef]

TypeError == Err("type", 0, "", 0)

\* maybeParse without its test of stringifyBigInt
RpMaybeParse_Always(stringifyBigInt, res) ==
  IF res.t # "string" THEN [threw |-> TRUE, error |-> Err("type", 0, "", 0), val |-> JUndef]
  ELSE IF JSONParse(bigIntStringify(res.chars)).ok
    THEN [threw |-> FALSE, error |-> NoError,
          val |-> JSONParse(bigIntStringify(res.chars)).val]
    ELSE [threw |-> TRUE, error |-> SyntaxError, val |-> JUndef]

\* src/index.js: stringifyBigInt ? JSON.parse(bigIntStringify(res)) : res
\* JSON.parse returns the value or throws a SyntaxError
ValueOrThrow(r) == IF r.ok THEN Returned(r.val) ELSE Thrown(SyntaxError)

RpMaybeParse(stringifyBigInt, res) ==
  IF ~stringifyBigInt THEN Returned(res)
  ELSE IF res.t # "string" THEN Thrown(TypeError)
  ELSE ValueOrThrow(JSONParse(bigIntStringify(res.chars)))

\* part_002: a value that is no string is stringified first; the error of
\* JSON.parse is logged and thrown again
AxMaybeParse(stringifyBigInt, res) ==
  IF ~stringifyBigInt THEN Returned(res)
  ELSE ValueOrThrow(JSONParse(bigIntStringifyMasked(
         IF res.t = "string" THEN res.chars ELSE JSONStringify(res))))

\* part_001:23-25 and 341-343 are the maybeParse of src/index.js, and
\* part_001:179-195 is the one of part_002
MaybeParseOf(variant, stringifyBigInt, res) ==
  IF variant \in {"requestPromise", "requestPromiseEager", "axiosAsync"}
    THEN RpMaybeParse(stringifyBigInt, res)
    ELSE AxMaybeParse(stringifyBigInt, res)

\* MaybeParseOf over what the transport resolves with, computed once
ParseTable ==
  {[variant |-> v, stringifyBigInt |-> f, res |-> e.val,
    out |-> MaybeParseOf(v, f, e.val)] :
     v \in Variants, f \in BOOLEAN, e \in DecodeTable}

\* the same for the clients of part_001
PartOneParseTable ==
  {[variant |-> v, stringifyBigInt |-> f, res |-> e.val,
    out |-> MaybeParseOf(v, f, e.val)] :
     v \in PartOneVariants, f \in BOOLEAN, e \in DecodeTable}

maybeParse(cl, res) ==
  (CHOOSE e \in IF cl.variant \in Variants THEN ParseTable ELSE PartOneParseTable :
     /\ e.variant = cl.variant
     /\ e.stringifyBigInt = cl.stringifyBigInt
     /\ e.res = res).out

-----------------------------------------------------------------------------
(* One call of a verb method                                               *)
(*   state      "Built" before the method is called, then "Sent",           *)
(*              "WaitingRetryDelay", "Sent" again, "Succeeded" | "Failed"   *)
(*   sent       the requests given to the transport, in order               *)
(*   responses  the responses of the transport, in order                    *)
(*   caught     the error delayIfLimitReached was called with               *)
(*   desc       the descriptor of a call of client.request                  *)
(*   how        "pending" | "resolved" | "rejected": the returned promise;  *)
(*              "thrown": the call threw instead of returning               *)
(*   hist       the states the call went through                            *)

NoDescriptor == [path |-> JUndef, method |-> "", params |-> JUndef, body |-> JUndef]

NewCall ==
  [state |-> "Built", verb |-> "", url |-> JUndef, arg |-> JUndef,
   desc |-> NoDescriptor, sent |-> <<>>, responses |-> <<>>, caught |-> NoError,
   how |-> "pending", value |-> JUndef, error |-> NoError, hist |-> <<"Built">>]

Resolve(c, v) ==
  [c EXCEPT !.state = "Succeeded", !.how = "resolved", !.value = v,
            !.hist = Append(@, "Succeeded")]

Reject(c, e) ==
  [c EXCEPT !.state = "Failed", !.how = "rejected", !.error = e,
            !.hist = Append(@, "Failed")]

\* a verb method that checks its body before its path
Invoke_BodyFirst(cl, verb, url, arg) ==
  LET c == [NewCall EXCEPT !.verb = verb, !.url = url, !.arg = arg]
  IN  IF RequiresBody(verb) /\ isEmpty(cl.variant, arg) THEN Reject(c, MissingBody)
      ELSE IF isEmpty(cl.variant, url) THEN Reject(c, MissingUrl)
      ELSE [c EXCEPT !.state = "Sent",
                     !.sent = <<Request(cl, FirstArgs(cl.variant, verb, url, arg))>>,
                     !.hist = Append(@, "Sent")]

\* the verb method up to its return: the checks, then the first _request
Invoke(cl, verb, url, arg) ==
  LET c == [NewCall EXCEPT !.verb = verb, !.url = url, !.arg = arg]
  IN  IF isEmpty(cl.variant, url) THEN Reject(c, MissingUrl)
      ELSE IF RequiresBody(verb) /\ isEmpty(cl.variant, arg) THEN Reject(c, MissingBody)
      ELSE [c EXCEPT !.state = "Sent",
                     !.sent = <<Request(cl, FirstArgs(cl.variant, verb, url, arg))>>,
                     !.hist = Append(@, "Sent")]

\* the call of a property that is undefined: a TypeError, thrown by the call
NotAFunction == Err("type", 0, "client.request is not a function", 0)

Throw(c, e) ==
  [c EXCEPT !.state = "Failed", !.how = "thrown", !.error = e,
            !.hist = Append(@, "Failed")]

\* client.request(descriptor): the object the factory returns has no
\* property request
InvokeRequest(cl, desc) ==
  Throw([NewCall EXCEPT !.verb = "request", !.desc = desc], NotAFunction)

\* a response of the transport: a 2xx with its body text, another status, or
\* no response at all
Resp(kind, status, text) == [kind |-> kind, status |-> status, text |-> text]

ErrorOf(resp, attempt) == Err(resp.kind, resp.status, "", attempt)

\* the status of delayIfLimitReached
LimitStatus == 429

\* a retry after every HTTP error status; a retry after every error
IsLimitReached_AnyStatus(variant, err) == err.kind = "http"
IsLimitReached_EveryError(variant, err) == TRUE

\* err.statusCode === 429; err.response && err.response.status === 429
IsLimitReached(variant, err) == err.kind = "http" /\ err.status = LimitStatus

\* a .catch that sends the request again at once, without the delay
Catch_SendAtOnce(cl, c, err) ==
  IF IsLimitReached(cl.variant, err)
    THEN [c EXCEPT !.state = "Sent", !.caught = err,
                   !.sent = Append(@, Request(cl, RetryArgs(cl.variant, c.verb,
                                                            c.url, c.arg))),
                   !.hist = @ \o <<"Throttled", "Sent">>]
    ELSE Reject(c, err)

\* part_001:56-61: delayIfLimitReached(err, _request({...})): the argument
\* is evaluated first, which gives the request to the transport, and then
\* delayIfLimitReached runs up to the await of the delay
EagerCatch(cl, c, err) ==
  LET d == [c EXCEPT !.sent = Append(@, Request(cl, RetryArgs(cl.variant, c.verb,
                                                               c.url, c.arg)))]
  IN  IF IsLimitReached(cl.variant, err)
        THEN [d EXCEPT !.state = "WaitingRetryDelay", !.caught = err,
                       !.hist = @ \o <<"Throttled", "WaitingRetryDelay">>]
        ELSE Reject(d, err)

\* .catch((err) => Promise.resolve(delayIfLimitReached(err, fn))), up to the
\* await of the delay
Catch(cl, c, err) ==
  IF cl.variant = "requestPromiseEager" THEN EagerCatch(cl, c, err)
  ELSE IF IsLimitReached(cl.variant, err)
    THEN [c EXCEPT !.state = "WaitingRetryDelay", !.caught = err,
                   !.hist = @ \o <<"Throttled", "WaitingRetryDelay">>]
    ELSE Reject(c, err)

Received(c, resp) == [c EXCEPT !.responses = Append(@, resp)]

\* a .then(maybeParse) whose error is dropped: the call resolves with undefined
AfterParse_Swallow(cl, c, p) == Resolve(c, p.val)

\* .then(maybeParse): what maybeParse throws goes to the .catch
AfterParse(cl, c, p) == IF p.threw THEN Catch(cl, c, p.error) ELSE Resolve(c, p.val)

OnBody(cl, c, res) ==
  IF ParsesResponse(c.verb) THEN AfterParse(cl, c, maybeParse(cl, res))
  ELSE Resolve(c, res)

\* the response of the first request: .then(maybeParse) of get and del, and
\* the .catch of every verb
OnFirstResponse(cl, c, resp) ==
  IF resp.kind = "ok"
    THEN OnBody(cl, Received(c, resp), TransportResult(c.sent[1], resp.text))
    ELSE Catch(cl, Received(c, resp), ErrorOf(resp, 1))

\* the call of fn where fn is a promise: a TypeError
FnNotAFunction == Err("type", 0, "fn is not a function", 0)

\* a delay that never resumes the call
OnDelayElapsed_Stuck(cl, c) == c

\* Promise.delay(2500).then(() => fn()): the delay is over, fn sends again;
\* in the client of part_001:1-120 fn is the promise of the request already
\* sent, and calling it throws
OnDelayElapsed(cl, c) ==
  IF cl.variant = "requestPromiseEager" THEN Reject(c, FnNotAFunction)
  ELSE [c EXCEPT !.state = "Sent",
                 !.sent = Append(@, Request(cl, RetryArgs(cl.variant, c.verb,
                                                          c.url, c.arg))),
                 !.hist = Append(@, "Sent")]

\* delayIfLimitReached that throws err whatever fn() did
OnRetryResponse_RethrowCaught(cl, c, resp) == Reject(Received(c, resp), c.caught)

\* a retry that is caught by the same .catch as the first request
OnRetryResponse_RetryAgain(cl, c, resp) ==
  IF resp.kind = "ok" THEN Reject(Received(c, resp), c.caught)
  ELSE Catch(cl, Received(c, resp), ErrorOf(resp, 2))

\* the rest of delayIfLimitReached: the await throws the error of fn(), and
\* after a fulfilled fn() the function goes on to `throw err`
\* part_001:345-351 has `return fn()` instead: the call settles as the
\* _request of fn does, with response.data or with its error
OnRetryResponse(cl, c, resp) ==
  IF resp.kind # "ok" THEN Reject(Received(c, resp), ErrorOf(resp, 2))
  ELSE IF cl.variant = "axiosAsync"
    THEN Resolve(Received(c, resp), TransportResult(c.sent[2], resp.text))
    ELSE Reject(Received(c, resp), c.caught)

\* part_001:56-61: the promise of the request written as an argument has no
\* handler, its response changes nothing for the call
OnDroppedResponse(cl, c, resp) == Received(c, resp)

-----------------------------------------------------------------------------
(* Inputs                                                                  *)

Secret == JStr(<<"k">>)
Credentials == {JUndef, JStr(<<>>), Secret}
VersionInputs == {JUndef, JStr(<<"v", "2">>)}
OptionInputs == {JUndef, JBool(FALSE)}

OrdersPath == JStr(<<"o", "r", "d", "e", "r", "s">>)
Paths == {JUndef, JStr(<<>>), OrdersPath}

\* the body of a post; the parameters of a get and the body of a put, of a
\* patch and of a descriptor, which may be left out
OneKey == JObject(<<[key |-> <<"a">>, val |-> JNum(<<"1">>)]>>)
Payloads == {JUndef, EmptyObject, OneKey}
Optionals == {JUndef, OneKey}

Responses ==
  {Resp("ok", 200, b) : b \in Bodies}
    \cup {Resp("http", st, <<>>) : st \in {LimitStatus, 500}}
    \cup {Resp("network", 0, <<>>)}

\* {path, method, params} of a get, {path, method, body} of the other verbs
Descriptors ==
  {[path |-> p, method |-> m,
    params |-> IF m = "GET" THEN a ELSE JUndef,
    body |-> IF m = "GET" THEN JUndef ELSE a] :
     p \in Paths, m \in Verbs, a \in Optionals}

CallIds == 1..MaxCalls

-----------------------------------------------------------------------------
(* The state machine                                                       *)

NoCtor == [called |-> FALSE, cfg |-> [apiKey |-> JUndef, user |-> JUndef,
                                       pass |-> JUndef, version |-> JUndef],
           threw |-> FALSE, error |-> NoError]

\* no text under rewrite
NoRewrite == [str |-> <<>>, out |-> <<>>, by |-> "none", again |-> <<>>, passes |-> 0]

Init ==
  /\ client = NoClient
  /\ ctor = NoCtor
  /\ calls = [i \in CallIds |-> NewCall]
  /\ rewrite = NoRewrite

\* the factory is called once
Construct(variant, cfg, opts) ==
  /\ ~ctor.called
  /\ LET r == Factory(variant, cfg, opts)
     IN  /\ ctor' = [called |-> TRUE, cfg |-> cfg, threw |-> r.threw, error |-> r.error]
         /\ client' = r.client
  /\ UNCHANGED <<calls, rewrite>>

\* a verb method of the client is called
Call(i, verb, url, arg) ==
  /\ client.made
  /\ HasVerb(client.variant, verb)
  /\ calls[i].state = "Built"
  /\ \A j \in 1..(i - 1) : calls[j].state # "Built"
  /\ calls' = [calls EXCEPT ![i] = Invoke(client, verb, url, arg)]
  /\ UNCHANGED <<client, ctor, rewrite>>

Get(i, url, qs) == Call(i, "GET", url, qs)
Post(i, url, body) == Call(i, "POST", url, body)
Put(i, url, body) == Call(i, "PUT", url, body)
Patch(i, url, body) == Call(i, "PATCH", url, body)
Del(i, url) == Call(i, "DELETE", url, JUndef)

\* request is called on the client
RequestCall(i, desc) ==
  /\ client.made
  /\ calls[i].state = "Built"
  /\ \A j \in 1..(i - 1) : calls[j].state # "Built"
  /\ calls' = [calls EXCEPT ![i] = InvokeRequest(client, desc)]
  /\ UNCHANGED <<client, ctor, rewrite>>

\* a wait for the delay that blocks the whole process: no response is
\* handled while a call waits
FirstResponse_BlockedByWait(i, resp) ==
  /\ \A j \in DOMAIN calls : calls[j].state # "WaitingRetryDelay"
  /\ calls[i].state = "Sent"
  /\ Len(calls[i].sent) = 1
  /\ calls' = [calls EXCEPT ![i] = OnFirstResponse(client, calls[i], resp)]
  /\ UNCHANGED <<client, ctor, rewrite>>

FirstResponse(i, resp) ==
  /\ calls[i].state = "Sent"
  /\ Len(calls[i].sent) = 1
  /\ calls' = [calls EXCEPT ![i] = OnFirstResponse(client, calls[i], resp)]
  /\ UNCHANGED <<client, ctor, rewrite>>

DelayElapsed(i) ==
  /\ calls[i].state = "WaitingRetryDelay"
  /\ calls' = [calls EXCEPT ![i] = OnDelayElapsed(client, calls[i])]
  /\ UNCHANGED <<client, ctor, rewrite>>

RetryResponse(i, resp) ==
  /\ calls[i].state = "Sent"
  /\ Len(calls[i].sent) > 1
  /\ calls' = [calls EXCEPT ![i] = OnRetryResponse(client, calls[i], resp)]
  /\ UNCHANGED <<client, ctor, rewrite>>

\* the response of the request sent by the .catch of part_001:1-120
DroppedResponse(i, resp) ==
  /\ client.variant = "requestPromiseEager"
  /\ Len(calls[i].sent) = 2
  /\ Len(calls[i].responses) = 1
  /\ calls' = [calls EXCEPT ![i] = OnDroppedResponse(client, calls[i], resp)]
  /\ UNCHANGED <<client, ctor, rewrite>>

Next ==
  \/ \E variant \in Variants, a \in Credentials, u \in Credentials,
        p \in Credentials, v \in VersionInputs, o \in OptionInputs :
       Construct(variant, [apiKey |-> a, user |-> u, pass |-> p, version |-> v],
                 [stringifyBigInt |-> o])
  \/ \E i \in CallIds, url \in Paths, qs \in Optionals : Get(i, url, qs)
  \/ \E i \in CallIds, url \in Paths, body \in Payloads : Post(i, url, body)
  \/ \E i \in CallIds, url \in Paths, body \in Optionals :
       \/ Put(i, url, body)
       \/ Patch(i, url, body)
  \/ \E i \in CallIds, url \in Paths : Del(i, url)
  \/ \E i \in CallIds, desc \in Descriptors : RequestCall(i, desc)
  \/ \E i \in CallIds, resp \in Responses : FirstResponse(i, resp)
  \/ \E i \in CallIds : DelayElapsed(i)
  \/ \E i \in CallIds, resp \in Responses : RetryResponse(i, resp)

Spec == Init /\ [][Next]_vars

-----------------------------------------------------------------------------
(* The clients of part_001: one call of a verb on a client made with or    *)
(* without precision mode                                                  *)

\* a path of spaces, a number given as the path
BlankPath == JStr(<<" ", " ">>)
VariantPaths == Paths \cup {BlankPath, JNum(<<"5">>)}

\* a number, a boolean and a string of spaces given as the body
VariantPayloads == Payloads \cup {JNum(<<"5">>), JBool(TRUE), BlankPath}

VariantNext ==
  \/ \E variant \in PartOneVariants, a \in {JUndef, Secret}, o \in OptionInputs :
       Construct(variant, [apiKey |-> a, user |-> Secret, pass |-> Secret,
                           version |-> JUndef],
                 [stringifyBigInt |-> o])
  \/ \E i \in {1}, url \in VariantPaths, qs \in Optionals : Get(i, url, qs)
  \/ \E i \in {1}, url \in VariantPaths, body \in VariantPayloads :
       Post(i, url, body)
  \/ \E i \in {1}, url \in VariantPaths, body \in Optionals :
       \/ Put(i, url, body)
       \/ Patch(i, url, body)
  \/ \E i \in {1}, url \in VariantPaths : Del(i, url)
  \/ \E i \in {1}, resp \in Responses : FirstResponse(i, resp)
  \/ \E i \in {1} : DelayElapsed(i)
  \/ \E i \in {1}, resp \in Responses : RetryResponse(i, resp)
  \/ \E i \in {1}, resp \in Responses : DroppedResponse(i, resp)

VariantSpec == Init /\ [][VariantNext]_vars

-----------------------------------------------------------------------------
(* Several calls in flight on one client: the promise of each call is      *)
(* settled by the callbacks of its own requests and of its own delay,      *)
(* which the event loop runs one at a time in any order                    *)

InFlightIds == 1..MaxInFlight

\* the responses of the transport: a body, a 429, another error status
ConcResponses ==
  {Resp("ok", 200, OneField(Cyc(BigIntDigits))),
   Resp("http", LimitStatus, <<>>), Resp("http", 500, <<>>)}

ConcInit ==
  /\ client = NoClient
  /\ ctor = NoCtor
  /\ calls = [i \in InFlightIds |-> NewCall]
  /\ rewrite = NoRewrite

\* a response of the transport to the request of call i that is waiting
Respond(i) ==
  \E resp \in ConcResponses : FirstResponse(i, resp) \/ RetryResponse(i, resp)

ConcNext ==
  \/ \E variant \in Variants, o \in OptionInputs :
       Construct(variant, [apiKey |-> Secret, user |-> Secret, pass |-> Secret,
                           version |-> JUndef],
                 [stringifyBigInt |-> o])
  \/ \E i \in InFlightIds : Get(i, OrdersPath, JUndef)
  \/ \E i \in InFlightIds : Post(i, OrdersPath, OneKey)
  \/ \E i \in InFlightIds, resp \in ConcResponses : FirstResponse(i, resp)
  \/ \E i \in InFlightIds : DelayElapsed(i)
  \/ \E i \in InFlightIds, resp \in ConcResponses : RetryResponse(i, resp)

ConcSpec == ConcInit /\ [][ConcNext]_vars

\* every request given to the transport is answered in the end, and every
\* timer of Promise.delay fires in the end
FairConcSpec ==
  /\ ConcSpec
  /\ \A i \in InFlightIds : WF_vars(Respond(i)) /\ WF_vars(DelayElapsed(i))

-----------------------------------------------------------------------------
(* The digit-quoting rewrite on its own: a text is chosen, then one of the  *)
(* two bigIntStringify functions is applied to it, and then once more to   *)
(* its own output                                                          *)

\* the digit run of n digits that starts at the digit k + 1
Shifted(n, k) == [i \in 1..n |-> DigitChars[((i + k) % 10) + 1]]

\* what stands before a digit run: a colon, a member name and its colon, no
\* colon, a colon and a space, the vendor tag inside a string, a vendor
\* identifier before a second one, the text of the first placeholder before
\* a vendor identifier
Prefixes ==
  {<<":">>, <<"{", "\"", "a", "\"", ":">>, <<"x">>, <<":", " ">>,
   <<"\"">> \o TikTokTag,
   TikTokTag \o <<"7", ",">> \o TikTokTag,
   Placeholder(0) \o <<",">> \o TikTokTag}

\* what stands after it: nothing, the end of the object, one more member
Suffixes ==
  {<<>>, <<"}">>, <<",", "\"", "b", "\"", ":">> \o Cyc(BigIntDigits) \o <<"}">>}

Texts ==
  {pre \o Shifted(n, k) \o post :
     pre \in Prefixes, n \in RunLens, k \in 0..MaxShift, post \in Suffixes}

RewriteInit ==
  /\ client = NoClient
  /\ ctor = NoCtor
  /\ calls = [i \in CallIds |-> NewCall]
  /\ rewrite \in {[NoRewrite EXCEPT !.str = t] : t \in Texts}

\* src/index.js: bigIntStringify(str)
Stringify ==
  /\ rewrite.by = "none"
  /\ rewrite' = [rewrite EXCEPT !.out = bigIntStringify(rewrite.str),
                                 !.by = "bigIntStringify",
                                 !.passes = 1]
  /\ UNCHANGED <<client, ctor, calls>>

\* part_002: bigIntStringify(str), with the masking
StringifyMasked ==
  /\ rewrite.by = "none"
  /\ rewrite' = [rewrite EXCEPT !.out = bigIntStringifyMasked(rewrite.str),
                                 !.by = "bigIntStringifyMasked",
                                 !.passes = 1]
  /\ UNCHANGED <<client, ctor, calls>>

\* the same function applied to its own output
StringifyAgain ==
  /\ rewrite.passes = 1
  /\ rewrite' = [rewrite EXCEPT
                   !.again = IF rewrite.by = "bigIntStringify"
                               THEN bigIntStringify(rewrite.out)
                               ELSE bigIntStringifyMasked(rewrite.out),
                   !.passes = 2]
  /\ UNCHANGED <<client, ctor, calls>>

RewriteNext == Stringify \/ StringifyMasked \/ StringifyAgain

RewriteSpec == RewriteInit /\ [][RewriteNext]_vars

-----------------------------------------------------------------------------
(* Properties                                                              *)

Started(c) == c.state # "Built"
Settled(c) == c.state \in {"Succeeded", "Failed"}
Is429(resp) == resp.kind = "http" /\ resp.status = 429
Visited(c, st) == \E k \in 1..Len(c.hist) : c.hist[k] = st

\* an empty or missing path, an empty or missing body, a missing credential
EmptyPath(url) == url \in {JUndef, JStr(<<>>)}
EmptyBody(body) == body \in {JUndef, EmptyObject}
MissingCredential(v) == v \in {JUndef, JStr(<<>>)}

\* the value of the member named key of an object, undefined if there is none
Member(v, key) ==
  IF v.t = "object" /\ \E k \in 1..Len(v.members) : v.members[k].key = key
    THEN v.members[CHOOSE k \in 1..Len(v.members) : v.members[k].key = key].val
    ELSE JUndef

\* what a verb resolves with when its first request succeeds with this text
Delivered(cl, c, text) ==
  IF ParsesResponse(c.verb)
    THEN maybeParse(cl, TransportResult(c.sent[1], text)).val
    ELSE TransportResult(c.sent[1], text)

\* the first response was a 429 and the retry was answered
RetriedWith(c, kinds) ==
  /\ Len(c.responses) = 2
  /\ Is429(c.responses[1])
  /\ c.responses[2].kind \in kinds

\* C1: a call whose first response is a 429 and whose re-issued request
\* succeeds resolves to the caller with the decoded body of the retry, after
\* exactly two transport invocations.
C1_RetrySuccessResolves ==
  \A i \in CallIds :
    RetriedWith(calls[i], {"ok"}) =>
      /\ calls[i].how = "resolved"
      /\ calls[i].value = Delivered(client, calls[i], calls[i].responses[2].text)
      /\ Len(calls[i].sent) = 2

\* C2: for every verb the request re-issued after a 429 has the method, the
\* path, the query parameters and the body of the first request of the call.
C2_RetrySameRequest ==
  \A i \in CallIds :
    Len(calls[i].sent) >= 2 =>
      /\ calls[i].sent[2].method = calls[i].sent[1].method
      /\ calls[i].sent[2].url = calls[i].sent[1].url
      /\ calls[i].sent[2].query = calls[i].sent[1].query
      /\ calls[i].sent[2].body = calls[i].sent[1].body

\* C3: when the request re-issued after a 429 fails with an error E, a second
\* 429 included, the call fails to the caller with E, the transport has been
\* invoked exactly twice, and the call is over: no third attempt follows.
C3_RetryErrorSurfaces ==
  \A i \in CallIds :
    /\ RetriedWith(calls[i], {"http", "network"}) =>
         /\ calls[i].state = "Failed"
         /\ calls[i].how = "rejected"
         /\ calls[i].error = ErrorOf(calls[i].responses[2], 2)
         /\ Len(calls[i].sent) = 2
    /\ Len(calls[i].responses) <= 2

C3_Witness ==
  \E i \in CallIds :
    /\ RetriedWith(calls[i], {"http"})
    /\ Is429(calls[i].responses[2])
    /\ calls[i].state = "Failed"
    /\ calls[i].error.attempt = 2

\* C4: when the first transport attempt fails with anything other than a 429,
\* the call fails to the caller with that error, it never enters the delay,
\* and the transport has been invoked exactly once.
C4_OtherFailureFailsAtOnce ==
  \A i \in CallIds :
    (/\ Len(calls[i].responses) >= 1
     /\ calls[i].responses[1].kind # "ok"
     /\ ~Is429(calls[i].responses[1])) =>
      /\ calls[i].state = "Failed"
      /\ calls[i].how = "rejected"
      /\ calls[i].error = ErrorOf(calls[i].responses[1], 1)
      /\ ~Visited(calls[i], "WaitingRetryDelay")
      /\ Len(calls[i].sent) = 1

C4_Witness ==
  \E i \in CallIds :
    /\ Len(calls[i].responses) = 1
    /\ calls[i].responses[1].kind = "http"
    /\ calls[i].responses[1].status = 500
    /\ calls[i].verb = "POST"
    /\ calls[i].state = "Failed"

\* C5: a call makes at most two transport invocations and at most one retry
\* transition, and a call that has been sent is never in the Built state
\* again.
C5_AtMostOneRetry ==
  \A i \in CallIds :
    /\ Len(calls[i].sent) <= 2
    /\ Cardinality({k \in 1..Len(calls[i].hist) :
                      calls[i].hist[k] = "WaitingRetryDelay"}) <= 1
    /\ Len(calls[i].sent) >= 1 => calls[i].state # "Built"
    /\ \A k \in 2..Len(calls[i].hist) : calls[i].hist[k] # "Built"

C5_Witness ==
  \E i \in CallIds :
    /\ Len(calls[i].sent) = 2
    /\ Settled(calls[i])
    /\ calls[i].hist =
         <<"Built", "Sent", "Throttled", "WaitingRetryDelay", "Sent", "Failed">>

\* C6: a call of any verb method with an empty path fails with the missing
\* path error, as a rejected promise, without any transport invocation.
C6_EmptyPathRejected ==
  \A i \in CallIds :
    (/\ Started(calls[i])
     /\ calls[i].verb \in Verbs
     /\ EmptyPath(calls[i].url)) =>
      /\ calls[i].state = "Failed"
      /\ calls[i].how = "rejected"
      /\ calls[i].error = MissingUrl
      /\ calls[i].sent = <<>>

C6_Witness ==
  \E i \in CallIds :
    /\ calls[i].verb = "PATCH"
    /\ calls[i].url = JStr(<<>>)
    /\ calls[i].error = MissingUrl

\* C7, as stated: every POST call whose body is empty or absent fails with
\* the missing body error, without any transport invocation.
C7_EmptyBodyRejected ==
  \A i \in CallIds :
    (Started(calls[i]) /\ calls[i].verb = "POST" /\ EmptyBody(calls[i].arg)) =>
      /\ calls[i].state = "Failed"
      /\ calls[i].error = MissingBody
      /\ calls[i].sent = <<>>

\* C7, amended: every POST call with a non-empty path whose body is empty or
\* absent fails with the missing body error, without any transport
\* invocation.
C7_EmptyBodyRejectedOnPath ==
  \A i \in CallIds :
    (/\ Started(calls[i])
     /\ calls[i].verb = "POST"
     /\ ~EmptyPath(calls[i].url)
     /\ EmptyBody(calls[i].arg)) =>
      /\ calls[i].state = "Failed"
      /\ calls[i].how = "rejected"
      /\ calls[i].error = MissingBody
      /\ calls[i].sent = <<>>

C7_Witness ==
  \E i \in CallIds :
    /\ calls[i].verb = "POST"
    /\ calls[i].url = OrdersPath
    /\ calls[i].arg = EmptyObject
    /\ calls[i].error = MissingBody

\* C8: put and patch called with a non-empty path and without a body send
\* their request with an empty object as the body and never fail with a
\* precondition error.
C8_PutPatchDefaultBody ==
  \A i \in CallIds :
    (/\ Started(calls[i])
     /\ calls[i].verb \in {"PUT", "PATCH"}
     /\ ~EmptyPath(calls[i].url)
     /\ calls[i].arg = JUndef) =>
      /\ Len(calls[i].sent) >= 1
      /\ calls[i].sent[1].body = EmptyObject
      /\ calls[i].sent[1].method = calls[i].verb
      /\ calls[i].error.kind # "precondition"

C8_Witness ==
  \E i \in CallIds :
    /\ calls[i].verb = "PATCH"
    /\ calls[i].arg = JUndef
    /\ calls[i].state = "Sent"
    /\ calls[i].sent = <<Request(client, Args("PATCH", OrdersPath, JUndef,
                                               EmptyObject, "unset"))>>

\* C9: the factory called with apiKey, user or pass empty or missing throws
\* an error that names a missing field; no client is returned and the
\* transport is never invoked.
C9_MissingCredentialThrows ==
  (/\ ctor.called
   /\ \/ MissingCredential(ctor.cfg.apiKey)
      \/ MissingCredential(ctor.cfg.user)
      \/ MissingCredential(ctor.cfg.pass)) =>
    /\ ctor.threw
    /\ ctor.error.kind = "config"
    /\ \/ ctor.error.msg = "Missing apiKey" /\ MissingCredential(ctor.cfg.apiKey)
       \/ ctor.error.msg = "Missing user" /\ MissingCredential(ctor.cfg.user)
       \/ ctor.error.msg = "Missing pass" /\ MissingCredential(ctor.cfg.pass)
    /\ ~client.made
    /\ \A i \in CallIds : calls[i] = NewCall

C9_Witness ==
  /\ ctor.threw
  /\ ctor.error.msg = "Missing pass"
  /\ ctor.cfg.pass = JUndef
  /\ ~client.made

\* the member "a" of the text is a bare run of exactly n digits
FieldARun(text, n) ==
  /\ Len(text) >= 5
  /\ SubSeq(text, 1, 5) = <<"{", "\"", "a", "\"", ":">>
  /\ RunLen(text, 6) = n

\* C10: in precision mode a GET whose response body has a field that is a
\* bare run of exactly 17 digits after the colon resolves with that field as
\* the string of these digits.
C10_SeventeenDigitsAsString ==
  \A i \in CallIds :
    (/\ client.variant = "requestPromise"
     /\ client.stringifyBigInt
     /\ calls[i].verb = "GET"
     /\ Len(calls[i].responses) >= 1
     /\ calls[i].responses[1].kind = "ok"
     /\ FieldARun(calls[i].responses[1].text, BigIntDigits)) =>
      /\ calls[i].state = "Succeeded"
      /\ Member(calls[i].value, <<"a">>)
           = JStr(SubSeq(calls[i].responses[1].text, 6, 5 + BigIntDigits))

\* no colon of the text is directly followed by a run of exactly 17 digits
NoExactRun(str) ==
  \A i \in 1..Len(str) : str[i] = ":" => RunLen(str, i + 1) # BigIntDigits

\* C11: the rewrite changes a digit run that directly follows a colon only
\* when the run is exactly 17 digits long: a text whose runs after a colon
\* are 16 digits or 18 and more digits long is left unchanged.
C11_OnlyExactRunsChange ==
  (rewrite.by # "none" /\ NoExactRun(rewrite.str)) => rewrite.out = rewrite.str

\* the text is {"n":"TikTokOrderID:<17 or more digits>","a":<17 digits>}
IsVendorBody(text) ==
  \E n \in BigIntDigits..(BigIntDigits + 1) :
    text = VendorBody(Cyc(n), Cyc(BigIntDigits))

\* the string value of the member "n" of such a text
VendorValue(text) == SubSeq(text, 7, QuoteFrom(text, 7) - 1)

\* C12: in precision mode a response body that holds a string value with the
\* vendor id pattern in it and a bare 17-digit numeric field decodes with the
\* string value unchanged and the numeric field as a string.
C12_VendorStringKept ==
  \A i \in CallIds :
    (/\ client.stringifyBigInt
     /\ calls[i].verb \in {"GET", "DELETE"}
     /\ Len(calls[i].responses) >= 1
     /\ calls[i].responses[1].kind = "ok"
     /\ IsVendorBody(calls[i].responses[1].text)) =>
      /\ calls[i].state = "Succeeded"
      /\ Member(calls[i].value, <<"n">>)
           = JStr(VendorValue(calls[i].responses[1].text))
      /\ Member(calls[i].value, <<"a">>).t = "string"

\* C13: in precision mode, in both clients, the rewrite of a GET or DELETE
\* response is applied to the raw response text before any JSON decoding:
\* the transport hands over the text undecoded, and a 17-digit integer of the
\* response reaches the caller with the digits it had in the text.
C13_RewriteBeforeDecoding ==
  \A i \in CallIds :
    (/\ client.stringifyBigInt
     /\ calls[i].verb \in {"GET", "DELETE"}
     /\ Len(calls[i].sent) >= 1) =>
      /\ ~calls[i].sent[1].decode
      /\ (/\ calls[i].state = "Succeeded"
          /\ FieldARun(calls[i].responses[1].text, BigIntDigits)) =>
           Member(calls[i].value, <<"a">>)
             = JStr(SubSeq(calls[i].responses[1].text, 6, 5 + BigIntDigits))

\* C14: in precision mode the successful response of every verb, POST, PUT
\* and PATCH included, has its bare 17-digit integer values returned as
\* strings.
C14_EveryVerbReturnsStrings ==
  \A i \in CallIds :
    (/\ client.stringifyBigInt
     /\ calls[i].state = "Succeeded"
     /\ FieldARun(calls[i].responses[1].text, BigIntDigits)) =>
      Member(calls[i].value, <<"a">>).t = "string"

\* the body as the transport decodes it
Decoded(text) == (CHOOSE e \in DecodeTable : e.decode /\ e.text = text).val

\* C15: with precision mode disabled every successful response is returned
\* exactly as decoded by the transport, with no rewrite: a 17-digit run of
\* the body stays a number.
C15_DisabledReturnsDecoded ==
  \A i \in CallIds :
    (/\ client.made
     /\ ~client.stringifyBigInt
     /\ Len(calls[i].responses) >= 1
     /\ calls[i].responses[1].kind = "ok") =>
      /\ calls[i].state = "Succeeded"
      /\ calls[i].sent[1].decode
      /\ calls[i].value = Decoded(calls[i].responses[1].text)
      /\ FieldARun(calls[i].responses[1].text, BigIntDigits) =>
           Member(calls[i].value, <<"a">>).t = "number"

C15_Witness ==
  \E i \in CallIds :
    /\ ~client.stringifyBigInt
    /\ calls[i].verb = "GET"
    /\ calls[i].state = "Succeeded"
    /\ calls[i].responses[1].text = OneField(Cyc(BigIntDigits))
    /\ Member(calls[i].value, <<"a">>).t = "number"

\* the request carries what the factory was given
CarriesConfig(req) ==
  /\ req.version = (IF ctor.cfg.version = JUndef THEN JStr(<<"v", "1">>)
                     ELSE ctor.cfg.version)
  /\ req.contentType = "application/json; charset=utf-8"
  /\ req.apiKey = ctor.cfg.apiKey
  /\ req.user = ctor.cfg.user
  /\ req.pass = ctor.cfg.pass

\* C16: every transport invocation of a client, first attempts and retries
\* alike, targets the base address of the version given at construction (v1
\* when none is given) and carries the JSON content type, the configured
\* apiKey and the configured user and pass; and once the client is made no
\* step changes the client or the configuration it was made from.
C16_RequestsCarryConfig ==
  /\ [](\A i \in CallIds : \A k \in 1..Len(calls[i].sent) :
          CarriesConfig(calls[i].sent[k]))
  /\ [][client.made => (client' = client /\ ctor' = ctor)]_vars

C16_Witness ==
  \E i \in CallIds :
    /\ Len(calls[i].sent) = 2
    /\ calls[i].sent[2].version = JStr(<<"v", "2">>)
    /\ calls[i].sent[2].apiKey = Secret

\* what the caller gave, {} where a get, put or patch was given nothing
Given(arg) == IF arg = JUndef THEN JObject(<<>>) ELSE arg

\* C17: the first transport invocation of a GET carries the caller's
\* parameters as query and no body; that of a POST, PUT or PATCH carries the
\* caller's body as payload and no query; that of a DELETE carries neither.
C17_FirstRequestShape ==
  \A i \in CallIds :
    Len(calls[i].sent) >= 1 =>
      /\ calls[i].sent[1].method = calls[i].verb
      /\ calls[i].sent[1].url = calls[i].url
      /\ calls[i].verb = "GET" =>
           /\ calls[i].sent[1].query = Given(calls[i].arg)
           /\ calls[i].sent[1].body = JUndef
      /\ calls[i].verb \in {"POST", "PUT", "PATCH"} =>
           /\ calls[i].sent[1].body = Given(calls[i].arg)
           /\ calls[i].sent[1].query = JUndef
      /\ calls[i].verb = "DELETE" =>
           /\ calls[i].sent[1].body = JUndef
           /\ calls[i].sent[1].query = JUndef

C17_Witness ==
  \E i \in CallIds :
    /\ calls[i].verb = "GET"
    /\ calls[i].arg = OneKey
    /\ Len(calls[i].sent) = 1
    /\ calls[i].sent[1].query = OneKey
    /\ calls[i].sent[1].body = JUndef

\* what the verb method named by the descriptor is called with
ArgOf(desc) == IF desc.method = "GET" THEN desc.params ELSE desc.body

\* C18: the client offers request(descriptor), and a call of it behaves as
\* the verb method named by the method field called with the same path and
\* params or body: up to the first response it has the same precondition
\* failure or the same transport invocation, delivered in the same way.
C18_RequestAsVerbMethod ==
  \A i \in CallIds :
    (/\ calls[i].verb = "request"
     /\ HasVerb(client.variant, calls[i].desc.method)
     /\ calls[i].responses = <<>>) =>
      /\ calls[i].error # NotAFunction
      /\ calls[i].state =
           Invoke(client, calls[i].desc.method, calls[i].desc.path,
                  ArgOf(calls[i].desc)).state
      /\ calls[i].sent =
           Invoke(client, calls[i].desc.method, calls[i].desc.path,
                  ArgOf(calls[i].desc)).sent
      /\ calls[i].how =
           Invoke(client, calls[i].desc.method, calls[i].desc.path,
                  ArgOf(calls[i].desc)).how
      /\ calls[i].error =
           Invoke(client, calls[i].desc.method, calls[i].desc.path,
                  ArgOf(calls[i].desc)).error

\* the last response of the call was a success, and where the verb decodes
\* it, the decoding did not throw
LastAttemptGood(c) ==
  /\ c.responses # <<>>
  /\ c.responses[Len(c.responses)].kind = "ok"
  /\ ParsesResponse(c.verb) =>
       ~maybeParse(client, TransportResult(c.sent[Len(c.responses)],
                                           c.responses[Len(c.responses)].text)).threw

\* C19: no error is swallowed: a call resolves only if its last transport
\* attempt succeeded and the decoding of the response succeeded; every other
\* call that is over has failed, with its error.
C19_NoErrorSwallowed ==
  \A i \in CallIds :
    /\ calls[i].how = "resolved" =>
         (calls[i].state = "Succeeded" /\ LastAttemptGood(calls[i]))
    /\ calls[i].state = "Succeeded" => calls[i].how = "resolved"
    /\ (Settled(calls[i]) /\ ~LastAttemptGood(calls[i])) =>
         /\ calls[i].state = "Failed"
         /\ calls[i].how \in {"rejected", "thrown"}
         /\ calls[i].error # NoError

C19_Witness ==
  \E i \in CallIds :
    /\ calls[i].verb = "DELETE"
    /\ calls[i].responses = <<Resp("ok", 200, <<"<">>)>>
    /\ calls[i].how = "rejected"
    /\ calls[i].error = SyntaxError

\* C20: in precision mode, when the rewritten body of a successful GET or
\* DELETE response cannot be decoded as JSON, the call fails with the decode
\* error, without delay or retry: the transport was invoked exactly once.
C20_DecodeErrorFailsAtOnce ==
  \A i \in CallIds :
    (/\ client.stringifyBigInt
     /\ calls[i].verb \in {"GET", "DELETE"}
     /\ Len(calls[i].responses) >= 1
     /\ calls[i].responses[1].kind = "ok"
     /\ maybeParse(client, TransportResult(calls[i].sent[1],
                                           calls[i].responses[1].text)).threw) =>
      /\ calls[i].state = "Failed"
      /\ calls[i].how = "rejected"
      /\ calls[i].error = SyntaxError
      /\ ~Visited(calls[i], "WaitingRetryDelay")
      /\ Len(calls[i].sent) = 1
      /\ Len(calls[i].responses) = 1

C20_Witness ==
  \E i \in CallIds :
    /\ client.stringifyBigInt
    /\ calls[i].verb = "GET"
    /\ calls[i].responses = <<Resp("ok", 200, <<>>)>>
    /\ calls[i].error = SyntaxError
    /\ Len(calls[i].sent) = 1

\* C24: after a 429 on the first attempt the request is sent again only after
\* the delay: a waiting call has made one transport invocation, a call with
\* two invocations went through Throttled, WaitingRetryDelay and Sent in that
\* order, and the second invocation is made by the step that ends the wait.
C24_RetryAfterDelay ==
  /\ [](\A i \in CallIds :
          /\ calls[i].state = "WaitingRetryDelay" =>
               (Len(calls[i].sent) = 1 /\ Is429(calls[i].responses[1]))
          /\ Len(calls[i].sent) >= 2 =>
               /\ Len(calls[i].hist) >= 5
               /\ SubSeq(calls[i].hist, 1, 5)
                    = <<"Built", "Sent", "Throttled", "WaitingRetryDelay", "Sent">>)
  /\ [][\A i \in CallIds :
          (Len(calls[i].sent) >= 1 /\ Len(calls'[i].sent) > Len(calls[i].sent)) =>
            (calls[i].state = "WaitingRetryDelay" /\ calls'[i].state = "Sent")]_vars

C24_Witness ==
  \E i \in CallIds :
    /\ calls[i].state = "Sent"
    /\ Len(calls[i].sent) = 2
    /\ calls[i].hist = <<"Built", "Sent", "Throttled", "WaitingRetryDelay", "Sent">>

\* C27: the rewrite of a well-formed JSON body is well-formed JSON again: in
\* precision mode a GET or DELETE whose response body is well-formed JSON
\* never fails with a decode error.
C27_RewriteKeepsJson ==
  \A i \in CallIds :
    (/\ client.stringifyBigInt
     /\ calls[i].verb \in {"GET", "DELETE"}
     /\ Len(calls[i].responses) >= 1
     /\ calls[i].responses[1].kind = "ok"
     /\ Decoded(calls[i].responses[1].text).t = "object") =>
      /\ calls[i].state = "Succeeded"
      /\ calls[i].error.kind # "syntax"

\* C29: the path is checked before the body: post called with an empty path
\* and an empty body fails with the missing path error, never with the
\* missing body error, and makes no transport invocation.
C29_PathCheckedFirst ==
  \A i \in CallIds :
    (/\ calls[i].verb = "POST"
     /\ Started(calls[i])
     /\ EmptyPath(calls[i].url)
     /\ EmptyBody(calls[i].arg)) =>
      /\ calls[i].error = MissingUrl
      /\ calls[i].error # MissingBody
      /\ calls[i].how = "rejected"
      /\ calls[i].sent = <<>>

C29_Witness ==
  \E i \in CallIds :
    /\ calls[i].verb = "POST"
    /\ calls[i].url = JStr(<<>>)
    /\ calls[i].arg = EmptyObject
    /\ calls[i].error = MissingUrl

\* the positions of the characters of s that are no quotes, in order, and
\* then Len(s) + 1
Unquoted(s) ==
  SelectSeq([i \in 1..Len(s) |-> i], LAMBDA i : s[i] # "\"") \o <<Len(s) + 1>>

\* the quotes of s that stand directly before the position p[k]
QuotesBefore(p, k) == p[k] - (IF k = 1 THEN 0 ELSE p[k - 1]) - 1

\* the text o is the text s with quote characters inserted and nothing else
\* changed: the same characters that are no quotes, in the same order, and
\* before each of them and at the end at least the quotes of s
InsertedInto(s, ps, o, po) ==
  /\ Len(ps) = Len(po)
  /\ \A k \in 1..(Len(ps) - 1) : s[ps[k]] = o[po[k]]
  /\ \A k \in 1..Len(ps) : QuotesBefore(po, k) >= QuotesBefore(ps, k)

InsertedOnly(s, o) == InsertedInto(s, Unquoted(s), o, Unquoted(o))

\* C30: the digit-quoting rewrite only inserts quote characters into its
\* text, and applied to its own output it changes nothing:
\* rewrite(rewrite(s)) = rewrite(s)
C30_RewriteIdempotent ==
  rewrite.by = "bigIntStringify" =>
    /\ InsertedOnly(rewrite.str, rewrite.out)
    /\ rewrite.passes = 2 => rewrite.again = rewrite.out

\* a text with a quoted run has gone through the rewrite twice
C30_Witness ==
  /\ rewrite.by = "bigIntStringify"
  /\ rewrite.passes = 2
  /\ rewrite.out # rewrite.str
  /\ rewrite.again = rewrite.out

\* the text s with every vendor identifier kept and every other run of
\* exactly 17 digits after a colon put in quotes
ExactMatchAt(s, k) == MatchesAt(s, k) /\ RunLen(s, k + 1) = BigIntDigits

\* the first position at or after i where a vendor identifier or such a run
\* starts, Len(s) + 1 if there is none
NextSpecial(s, i) ==
  Least({k \in i..(Len(s) + 1) :
           k > Len(s) \/ TikTokLen(s, k) > 0 \/ ExactMatchAt(s, k)})

RECURSIVE QuotedFrom(_, _, _)
QuotedFrom(s, i, j) ==
  IF j > Len(s) THEN SubSeq(s, i, Len(s))
  ELSE IF TikTokLen(s, j) > 0
    THEN SubSeq(s, i, j + TikTokLen(s, j) - 1)
           \o QuotedFrom(s, j + TikTokLen(s, j), NextSpecial(s, j + TikTokLen(s, j)))
    ELSE SubSeq(s, i, j - 1)
           \o <<":", "\"">> \o SubSeq(s, j + 1, j + BigIntDigits) \o <<"\"">>
           \o QuotedFrom(s, j + BigIntDigits + 1, NextSpecial(s, j + BigIntDigits + 1))

QuotedOutsideVendorIds(s, i) == QuotedFrom(s, i, NextSpecial(s, i))

\* C26: for every text, the masking transform returns the text with quotes
\* around the 17-digit runs that follow a colon outside the vendor
\* identifiers and with nothing else changed, every vendor identifier back in
\* its place, also when the text holds the text of a placeholder
C26_MaskingRestores ==
  rewrite.by = "bigIntStringifyMasked" =>
    rewrite.out = QuotedOutsideVendorIds(rewrite.str, 1)

\* C25: in the request-promise client of part_001:1-120 a second request
\* is given to the transport only after a first attempt that failed with a
\* 429 and only once the delay is over; a first attempt that fails with
\* another error leads to exactly one transport invocation.
C25_SecondRequestOnlyAfter429 ==
  \A i \in CallIds :
    client.variant = "requestPromiseEager" =>
      /\ Len(calls[i].sent) >= 2 =>
           /\ Is429(calls[i].responses[1])
           /\ calls[i].state # "WaitingRetryDelay"
      /\ (/\ Len(calls[i].responses) >= 1
          /\ calls[i].responses[1].kind # "ok"
          /\ ~Is429(calls[i].responses[1])) => Len(calls[i].sent) = 1

\* what the call delivers when its first attempt is answered by resp
FirstAttempt(cl, c, resp) ==
  OnFirstResponse(cl, Invoke(cl, c.verb, c.url, c.arg), resp)

\* C23: in the async axios client of part_001:307-416 a call that gets a 429
\* and then a successful retry with body b delivers what a call whose first
\* attempt succeeds with body b delivers, the precision-safe decoding of GET
\* and DELETE included.
C23_RetryTransparent ==
  \A i \in CallIds :
    (/\ client.variant = "axiosAsync"
     /\ Len(calls[i].responses) = 2
     /\ Is429(calls[i].responses[1])
     /\ calls[i].responses[2].kind = "ok") =>
      /\ calls[i].how = FirstAttempt(client, calls[i], calls[i].responses[2]).how
      /\ calls[i].value = FirstAttempt(client, calls[i], calls[i].responses[2]).value
      /\ calls[i].error = FirstAttempt(client, calls[i], calls[i].responses[2]).error

\* the verdict of the checks of a verb method of the variant v: the promise
\* it returns and the error it rejects with
Verdict(v, c) ==
  LET r == Invoke([client EXCEPT !.variant = v], c.verb, c.url, c.arg)
  IN  <<r.how, r.error>>

\* C28: the variants accept and reject the same calls: for every path and
\* every body, a call is rejected with the missing path or the missing body
\* error by one variant exactly if the others reject it with the same error.
C28_SameVerdict ==
  \A i \in CallIds :
    (Started(calls[i]) /\ calls[i].verb \in Verbs) =>
      \A v \in Variants \cup PartOneVariants :
        HasVerb(v, calls[i].verb) =>
          Verdict(v, calls[i]) = Verdict(client.variant, calls[i])

\* the call c as it is when it is the only call of the client: its verb
\* method, then its responses in order
Alone(cl, c) ==
  LET c0 == Invoke(cl, c.verb, c.url, c.arg)
  IN  IF c.responses = <<>> THEN c0
      ELSE IF Len(c.responses) = 1 THEN OnFirstResponse(cl, c0, c.responses[1])
      ELSE OnRetryResponse(cl, OnDelayElapsed(cl, OnFirstResponse(cl, c0, c.responses[1])),
                           c.responses[2])

\* C21: with several calls in flight, a call that waits for its retry delay
\* does not prevent another call from being made or from getting its
\* response; a step of one call changes no other call; and a settled call
\* has the outcome and the transport invocations it has when it is alone,
\* whatever the interleaving.
C21_CallsIndependent ==
  /\ [](\A i \in DOMAIN calls, j \in DOMAIN calls :
          (i # j /\ calls[i].state = "WaitingRetryDelay") =>
            /\ calls[j].state = "Sent" => ENABLED Respond(j)
            /\ (calls[j].state = "Built" /\ \A k \in 1..(j - 1) : Started(calls[k])) =>
                 ENABLED Get(j, OrdersPath, JUndef))
  /\ [](\A i \in DOMAIN calls :
          Settled(calls[i]) => calls[i] = Alone(client, calls[i]))
  /\ [][\A i \in DOMAIN calls, j \in DOMAIN calls :
          (i # j /\ calls'[i] # calls[i]) => calls'[j] = calls[j]]_vars

\* a call was made and has succeeded while an earlier call waits for its
\* retry delay, and a call has been retried while another was in flight
C21_Witness ==
  \E i \in DOMAIN calls, j \in DOMAIN calls :
    /\ i < j
    /\ calls[i].state = "WaitingRetryDelay"
    /\ calls[j].state = "Succeeded"
    /\ Len(calls[j].sent) = 1

\* the waits of a call: for its first response, for its delay, for the
\* response of its retry
Waits(c) == Len(SelectSeq(c.hist, LAMBDA st : st \in {"Sent", "WaitingRetryDelay"}))

\* C22: where every request is answered in the end and every delay is over
\* in the end, every call that was made settles as succeeded or failed; it
\* waits for its own response and, after a 429, for one delay and the
\* response of one retry, and for nothing else.
C22_EveryCallSettles ==
  /\ \A i \in InFlightIds : Started(calls[i]) ~> Settled(calls[i])
  /\ [](\A i \in DOMAIN calls :
          /\ Len(calls[i].sent) <= 2
          /\ Waits(calls[i]) <= 3
          /\ Waits(calls[i]) > 1 => Is429(calls[i].responses[1]))

\* a call has settled after a 429, a delay and a retry
C22_Witness ==
  \E i \in DOMAIN calls :
    /\ Settled(calls[i])
    /\ Waits(calls[i]) = 3
    /\ Len(calls[i].responses) = 2

====
